---- MODULE Spec2Model ----
(***************************************************************************)
(* State-machine model of pkg/proximitytransport/transport.go: the         *)
(* proximity transport (Listen, Dial, ReceiveFromPeer, HandleFoundPeer,    *)
(* HandleLostPeer, connect) together with the parts of Conn and Listener   *)
(* it calls.  Every locked region of the source is one atomic step; a      *)
(* handler is the sequence of its steps, so that other threads interleave  *)
(* exactly where the source releases its locks.                            *)
(***************************************************************************)
EXTENDS Integers, Sequences, FiniteSets, TLC

VARIABLES
    TransportMap,   \* protocol name -> registered transport (Nil: no entry)
    listener,       \* transport -> index into listeners (0: nil slot)
    listeners,      \* every Listener ever built: [t, localMa, done]
    connMap,        \* transport -> peer-id string -> index into conns (0: none)
    conns,          \* every Conn ever built
    cache,          \* transport -> peer-id string -> cached payloads (t.cache)
    peerstore,      \* transport -> peer-id string -> the TTL last written for
                    \* /<protocol>/<p>, and how often it was set to -1
    swarmConns,     \* overlay connections known to the swarm
    driverLog,      \* transport -> peer-id string -> calls of driver.CloseConnWithPeer
    tasks,          \* goroutines spawned by HandleFoundPeer
    pc,             \* thread -> position in the handler it runs
    arg,            \* thread -> arguments of the running (or last) call
    tmp,            \* thread -> locals of the running call
    ret,            \* thread -> what the last call returned
    held,           \* thread -> locks held across steps
    ncalls,         \* operation -> calls started so far
    hist            \* observations about the run (never read by the program)

vars == <<TransportMap, listener, listeners, connMap, conns, cache, peerstore,
          swarmConns, driverLog, tasks, pc, arg, tmp, ret, held, ncalls, hist>>

----------------------------------------------------------------------------
(* Bounds of the model.                                                    *)

MaxIdLen == 2
MaxListen == 2
MaxDial == 2
MaxFound == 2
MaxLost == 1
MaxPayloads == 3
MaxSwarmConns == 2
PipeCap == 1

----------------------------------------------------------------------------
(* Strings, peer ids and multiaddresses.                                   *)

Nil == "nil"

\* A string is a sequence of characters; character 0 stands for a byte that
\* is not in the peer-id alphabet.
Chars == 0 .. 2

RECURSIVE StringsUpTo(_)
StringsUpTo(n) ==
    IF n = 0 THEN {<<>>}
    ELSE LET S == StringsUpTo(n - 1)
         IN  S \cup {Append(s, c) : s \in {x \in S : Len(x) = n - 1}, c \in Chars}

Strings == StringsUpTo(MaxIdLen)

Min(a, b) == IF a < b THEN a ELSE b

RECURSIVE StrLessFrom(_, _, _)
StrLessFrom(a, b, i) ==
    IF i > Min(Len(a), Len(b)) THEN Len(a) < Len(b)
    ELSE IF a[i] # b[i] THEN a[i] < b[i]
    ELSE StrLessFrom(a, b, i + 1)

\* Go's < on strings: bytewise lexicographic order.
StrLess(a, b) == StrLessFrom(a, b, 1)

\* peer.Decode: the string is a peer id.
DecodeOK(s) == Len(s) > 0 /\ \A i \in 1 .. Len(s) : s[i] # 0

PeerIDs == {s \in Strings : DecodeOK(s)}

\* The strings that key the maps: the peer ids, and one string that peer.Decode
\* rejects.
Keys == PeerIDs \cup {<<0>>}

Transports == {"t1", "t2", "t3"}

ProtocolName(t) == IF t = "t3" THEN "mc" ELSE "ble"

Names == {ProtocolName(t) : t \in Transports}

\* The multiaddr protocol table maps a code to one name and back; a
\* component is kept with its protocol's name.
ProtocolCode(t) == ProtocolName(t)

LocalPeer(t) == CASE t = "t1" -> <<1, 2>>
                  [] t = "t2" -> <<2, 1>>
                  [] OTHER    -> <<1>>

\* ma.NewMultiaddr(fmt.Sprintf("/%s/%s", name, pid))
NewMultiaddr(name, pid) == <<[proto |-> name, val |-> pid]>>

DefaultVal == <<2, 2>>

DefaultAddr(t) == NewMultiaddr(ProtocolName(t), DefaultVal)

RECURSIVE FirstIndex(_, _, _)
FirstIndex(m, code, i) ==
    IF i > Len(m) THEN 0
    ELSE IF m[i].proto = code THEN i
    ELSE FirstIndex(m, code, i + 1)

\* Multiaddr.ValueForProtocol: the value of the first component of that
\* protocol, or an error.
ValueForProtocol(m, code) ==
    LET i == FirstIndex(m, code, 1)
    IN  IF i = 0 THEN [val |-> <<>>, err |-> "ErrProtocolNotFound"]
        ELSE [val |-> m[i].val, err |-> Nil]

\* errors.Wrap(err, msg): nil when err is nil.
Wrap(err, msg) == IF err = Nil THEN Nil ELSE msg

\* errors.New(msg)
New(msg) == msg

ErrWrongMultiaddr == "wrong multiaddr"
ErrOneListener == "one listener maximum"
ErrNoListener == "no active listener"
ErrNotLinked == "peer not connected through the native driver"
ErrAlreadyConnected == "already connected to this address"
ErrDuplicateConn == "duplicate conn"

----------------------------------------------------------------------------
(* Threads.                                                                *)

Threads == {"o1", "o2", "d1", "d2", "a1"}

Ops == {"Listen", "Dial", "Found", "Accept", "Lost", "Receive"}

MaxOf(op) == CASE op = "Listen"  -> MaxListen
               [] op = "Dial"    -> MaxDial
               [] op = "Found"   -> MaxFound
               [] op = "Accept"  -> MaxFound
               [] op = "Lost"    -> MaxLost
               [] OTHER          -> MaxPayloads

NoArg == [t |-> "t1", ma |-> <<>>, pid |-> <<>>, data |-> 0, linked |-> FALSE]
NoTmp == [ok |-> FALSE, ma |-> <<>>, pid |-> <<>>, l |-> 0, c |-> 0, todo |-> <<>>]
NoFound == [elected |-> FALSE, spawned |-> 0, sent |-> 0, lost |-> FALSE,
            stale |-> <<>>, fresh |-> <<>>]
NoRet == [op |-> "none", val |-> 0, err |-> Nil, b |-> FALSE]

Init ==
    /\ TransportMap = [n \in Names |-> Nil]
    /\ listener = [t \in Transports |-> 0]
    /\ listeners = <<>>
    /\ connMap = [t \in Transports |-> [p \in Keys |-> 0]]
    /\ conns = <<>>
    /\ cache = [t \in Transports |-> [p \in Keys |-> <<>>]]
    /\ peerstore = [t \in Transports |-> [p \in Keys |-> [ttl |-> "none", expired |-> 0]]]
    /\ swarmConns = <<>>
    /\ driverLog = [t \in Transports |-> [p \in Keys |-> 0]]
    /\ tasks = <<>>
    /\ pc = [th \in Threads |-> "idle"]
    /\ arg = [th \in Threads |-> NoArg]
    /\ tmp = [th \in Threads |-> NoTmp]
    /\ ret = [th \in Threads |-> NoRet]
    /\ held = [th \in Threads |-> {}]
    /\ ncalls = [op \in Ops |-> 0]
    /\ hist = [listened |-> {}, after |-> {},
               dialPeer |-> [th \in Threads |-> "none"],
               found |-> [th \in Threads |-> NoFound],
               lostSeen |-> [t \in Transports |-> {}],
               expiredBefore |-> [th \in Threads |-> 0],
               closedBefore |-> [th \in Threads |-> {}],
               snapshot |-> [th \in Threads |-> {}],
               noSlot |-> {}, sawConn |-> {}, toConn |-> <<>>, recheck |-> {},
               atCreate |-> <<>>, before |-> <<>>,
               noConn |-> [t \in Transports |-> [p \in Keys |-> <<>>]]]

\* A call starts on a thread that runs nothing.
Call(th, op, a) ==
    /\ pc[th] = "idle"
    /\ ncalls[op] < MaxOf(op)
    /\ ncalls' = [ncalls EXCEPT ![op] = @ + 1]
    /\ arg' = [arg EXCEPT ![th] = a]

\* The running call goes on at label; nothing is returned yet.
Goto(th, op, label) ==
    /\ pc' = [pc EXCEPT ![th] = label]
    /\ ret' = [ret EXCEPT ![th] = [NoRet EXCEPT !.op = op]]

\* The call returns r.
Return(th, r) ==
    /\ pc' = [pc EXCEPT ![th] = "idle"]
    /\ ret' = [ret EXCEPT ![th] = r]

Result(op, val, err, b) == [op |-> op, val |-> val, err |-> err, b |-> b]

\* sync.RWMutex: a writer waits for every reader of the lock to leave.
NoReader(lock) == \A th \in Threads : lock \notin held[th]

----------------------------------------------------------------------------
(* Listen                                                                  *)

\* Lines 143-155: the address is checked and the default bind replaced.
ListenAddrBad(t, m) ==
    LET v == ValueForProtocol(m, ProtocolCode(t))
    IN  v.err # Nil \/ (m # DefaultAddr(t) /\ v.val # LocalPeer(t))

ListenAddrErr(t, m) ==
    Wrap(ValueForProtocol(m, ProtocolCode(t)).err, ErrWrongMultiaddr)

NormalizeNever(t, m) == m

\* Lines 150-155
Normalize(t, m) ==
    IF m = DefaultAddr(t) THEN NewMultiaddr(ProtocolName(t), LocalPeer(t)) ELSE m

ListenCall(th, t, m) ==
    /\ Call(th, "Listen", [NoArg EXCEPT !.t = t, !.ma = m])
    /\ IF ListenAddrBad(t, m)
       THEN /\ Return(th, [op |-> "Listen", val |-> 0, err |-> ListenAddrErr(t, m),
                           b |-> FALSE])
            /\ tmp' = tmp
       ELSE /\ Goto(th, "Listen", "L_registry")
            /\ tmp' = [tmp EXCEPT ![th] = [NoTmp EXCEPT !.ma = Normalize(t, m)]]
    /\ hist' = [hist EXCEPT !.after =
                   IF ProtocolName(t) \in hist.listened THEN @ \cup {th} ELSE @ \ {th}]
    /\ UNCHANGED <<TransportMap, listener, listeners, connMap, conns, cache,
                   peerstore, swarmConns, driverLog, tasks, held>>

\* Lines 158-160: the registry is read under its read lock.
ListenReadRegistry(th) ==
    /\ pc[th] = "L_registry"
    /\ tmp' = [tmp EXCEPT ![th].ok = TransportMap[ProtocolName(arg[th].t)] # Nil]
    /\ pc' = [pc EXCEPT ![th] = "L_slot"]
    /\ UNCHANGED <<TransportMap, listener, listeners, connMap, conns, cache,
                   peerstore, swarmConns, driverLog, tasks, arg, ret, held,
                   ncalls, hist>>

ListenerExistsSlotOnly(ok, slot) == slot # 0

\* Line 162
ListenerExists(ok, slot) == ok \/ slot # 0

ListenKeepsSlot(t) == {<<"slot", t>>}

\* Line 166: t.lock.RUnlock() -- the locks Listen holds once the slot is read.
ListenHolds(t) == {}

\* Lines 161-166: the slot is read under its read lock.
ListenReadSlot(th) ==
    /\ pc[th] = "L_slot"
    /\ IF ListenerExists(tmp[th].ok, listener[arg[th].t])
       THEN /\ Return(th, [op |-> "Listen", val |-> 0, err |-> New(ErrOneListener),
                           b |-> FALSE])
            /\ held' = held
       ELSE /\ pc' = [pc EXCEPT ![th] = "L_register"] /\ ret' = ret
            /\ held' = [held EXCEPT ![th] = ListenHolds(arg[th].t)]
    /\ UNCHANGED <<TransportMap, listener, listeners, connMap, conns, cache,
                   peerstore, swarmConns, driverLog, tasks, arg, tmp,
                   ncalls, hist>>

\* Lines 169-171: the transport is registered under the registry's lock.
ListenRegister(th) ==
    /\ pc[th] = "L_register"
    /\ TransportMap' = [TransportMap EXCEPT ![ProtocolName(arg[th].t)] = arg[th].t]
    /\ pc' = [pc EXCEPT ![th] = "L_install"]
    /\ UNCHANGED <<listener, listeners, connMap, conns, cache, peerstore,
                   swarmConns, driverLog, tasks, arg, tmp, ret, held, ncalls, hist>>

\* newListener(ctx, localMa, t)
newListener(t, m) == [t |-> t, localMa |-> m, done |-> FALSE]

\* Lines 173-178: the listener is built and installed under the slot's lock.
ListenInstall(th) ==
    /\ pc[th] = "L_install"
    /\ NoReader(<<"slot", arg[th].t>>)
    /\ listeners' = Append(listeners, newListener(arg[th].t, tmp[th].ma))
    /\ listener' = [listener EXCEPT ![arg[th].t] = Len(listeners) + 1]
    /\ Return(th, [op |-> "Listen", val |-> Len(listeners) + 1, err |-> Nil,
                   b |-> FALSE])
    /\ hist' = [hist EXCEPT !.listened = @ \cup {ProtocolName(arg[th].t)}]
    /\ UNCHANGED <<TransportMap, connMap, conns, cache, peerstore, swarmConns,
                   driverLog, tasks, arg, tmp, held, ncalls>>

ListenStep(th) ==
    \/ ListenReadRegistry(th)
    \/ ListenReadSlot(th)
    \/ ListenRegister(th)
    \/ ListenInstall(th)

OtherPeer == <<2>>

\* The addresses the overlay hands to Listen.
ListenAddrs(t) ==
    { DefaultAddr(t),
      NewMultiaddr(ProtocolName(t), LocalPeer(t)),
      <<[proto |-> "tcp", val |-> <<1>>]>> \o NewMultiaddr(ProtocolName(t), LocalPeer(t)),
      NewMultiaddr(ProtocolName(t), OtherPeer),
      NewMultiaddr("tcp", LocalPeer(t)) }

ListenThreads == {"o1", "o2"}

NextListen ==
    \E th \in ListenThreads :
        \/ \E t \in Transports : \E m \in ListenAddrs(t) : ListenCall(th, t, m)
        \/ ListenStep(th)

SpecListen == Init /\ [][NextListen]_vars

----------------------------------------------------------------------------
(* Conn                                                                    *)

Conn(t, p, dir) ==
    [t |-> t, peer |-> p, dir |-> dir, ready |-> FALSE, cache |-> <<>>,
     input |-> <<>>, out |-> <<>>, closed |-> FALSE]

\* newConn: under the connection map's lock the Conn is inserted, unless the
\* map already holds one for the peer.
newConnFails(t, p) == connMap[t][p] # 0

\* RingBufferMap.Delete
CacheDelete(c, key) == [c EXCEPT ![key] = <<>>]

\* The Conn is created with the payloads the transport's cache holds for the
\* peer ahead of everything it receives itself, and the transport's entry is
\* dropped: the two caches never hold payloads of one Conn at a time.
newConn(t, p, dir) ==
    /\ conns' = Append(conns, [Conn(t, p, dir) EXCEPT !.cache = cache[t][p]])
    /\ connMap' = [connMap EXCEPT ![t][p] = Len(conns) + 1]
    /\ cache' = [cache EXCEPT ![t] = CacheDelete(@, p)]
    /\ hist' = [hist EXCEPT !.toConn = Append(@, <<>>),
                            !.atCreate = Append(@, cache[t][p]),
                            !.before = Append(@, hist.noConn[t][p]),
                            !.noConn[t][p] = <<>>]

Live(c) == c \in 1 .. Len(conns) /\ ~conns[c].closed

\* Conn.Close: the Conn leaves the connection map; a second Close does nothing.
ConnClose(c) ==
    /\ Live(c)
    /\ conns' = [conns EXCEPT ![c].closed = TRUE]
    /\ connMap' = [connMap EXCEPT ![conns[c].t][conns[c].peer] = IF @ = c THEN 0 ELSE @]
    /\ UNCHANGED <<TransportMap, listener, listeners, cache, peerstore, swarmConns,
                   driverLog, tasks, pc, arg, tmp, ret, held, ncalls, hist>>

----------------------------------------------------------------------------
(* Dial                                                                    *)

NoListenerIgnored(slot) == FALSE

\* Line 102
NoListener(slot) == slot = 0

\* Lines 108-111
DialAddrBad(t, m, pid) ==
    LET v == ValueForProtocol(m, ProtocolCode(t))
    IN  v.err # Nil \/ v.val # pid

DialAddrErr(t, m) ==
    Wrap(ValueForProtocol(m, ProtocolCode(t)).err, ErrWrongMultiaddr)

NotLinkedIgnored(answer) == FALSE

\* Line 115: the driver holds no link to the peer.
NotLinked(answer) == ~answer

\* What the run shows of a Dial call: the slot it found, the driver's answer.
Observe(th, t, answer) ==
    [hist EXCEPT !.dialPeer[th] = answer,
                 !.noSlot = IF listener[t] = 0 THEN @ \cup {th} ELSE @ \ {th},
                 !.sawConn = @ \ {th}]

\* Lines 100-117: the slot's read lock is taken and kept until Dial returns;
\* the listener, the address and the driver's link are checked in that order.
\* linked is the driver's answer to DialPeer, asked only on the third check.
DialCall(th, t, m, pid, linked) ==
    /\ Call(th, "Dial", [NoArg EXCEPT !.t = t, !.ma = m, !.pid = pid,
                                      !.linked = linked])
    /\ IF NoListener(listener[t])
       THEN /\ Return(th, Result("Dial", 0, New(ErrNoListener), FALSE))
            /\ hist' = Observe(th, t, "none")
            /\ held' = held
       ELSE IF DialAddrBad(t, m, pid)
       THEN /\ Return(th, Result("Dial", 0, DialAddrErr(t, m), FALSE))
            /\ hist' = Observe(th, t, "none")
            /\ held' = held
       ELSE IF NotLinked(linked)
       THEN /\ Return(th, Result("Dial", 0, New(ErrNotLinked), FALSE))
            /\ hist' = Observe(th, t, IF linked THEN "true" ELSE "false")
            /\ held' = held
       ELSE /\ Goto(th, "Dial", "D_map")
            /\ hist' = Observe(th, t, IF linked THEN "true" ELSE "false")
            /\ held' = [held EXCEPT ![th] = {<<"slot", t>>}]
    /\ UNCHANGED <<TransportMap, listener, listeners, connMap, conns, cache,
                   peerstore, swarmConns, driverLog, tasks, tmp>>

NeverConnected(entry) == FALSE

\* Line 123
AlreadyConnected(entry) == entry # 0

\* Lines 120-125: the connection map is read under its read lock.
DialReadMap(th) ==
    /\ pc[th] = "D_map"
    /\ IF AlreadyConnected(connMap[arg[th].t][arg[th].pid])
       THEN /\ Return(th, Result("Dial", 0, New(ErrAlreadyConnected), FALSE))
            /\ held' = [held EXCEPT ![th] = {}]
       ELSE /\ pc' = [pc EXCEPT ![th] = "D_new"]
            /\ UNCHANGED <<ret, held>>
    /\ hist' = [hist EXCEPT !.sawConn =
                   IF connMap[arg[th].t][arg[th].pid] # 0 THEN @ \cup {th} ELSE @]
    /\ UNCHANGED <<TransportMap, listener, listeners, connMap, conns, cache,
                   peerstore, swarmConns, driverLog, tasks, arg, tmp, ncalls>>

\* Line 128: the outbound Conn is built and returned.
DialNewConn(th) ==
    /\ pc[th] = "D_new"
    /\ IF newConnFails(arg[th].t, arg[th].pid)
       THEN /\ Return(th, Result("Dial", 0, New(ErrDuplicateConn), FALSE))
            /\ UNCHANGED <<conns, connMap, cache, hist>>
       ELSE /\ newConn(arg[th].t, arg[th].pid, "outbound")
            /\ Return(th, Result("Dial", Len(conns) + 1, Nil, FALSE))
    /\ held' = [held EXCEPT ![th] = {}]
    /\ UNCHANGED <<TransportMap, listener, listeners, peerstore, swarmConns,
                   driverLog, tasks, arg, tmp, ncalls>>

DialStep(th) ==
    \/ DialReadMap(th)
    \/ DialNewConn(th)

DialPeers == {<<1>>, <<2>>}

\* The (multiaddress, peer id) pairs the overlay hands to Dial on t.
DialArgs(t) ==
    {<<NewMultiaddr(ProtocolName(t), p), p>> : p \in DialPeers}
    \cup {<<NewMultiaddr(ProtocolName(t), <<1>>), <<2>>>>,
          <<NewMultiaddr("tcp", <<1>>), <<1>>>>}

DialThreads == {"o1", "o2"}


----------------------------------------------------------------------------
(* Listener                                                                *)

\* Listener.Addr().String(): the peer id the listener's multiaddress carries
\* under the transport's protocol.
ListenerAddr(l) ==
    ValueForProtocol(listeners[l].localMa, ProtocolCode(listeners[l].t)).val

\* The listener's context is cancelled (Listener.Close, or the transport's
\* context it derives from).
ListenerClose(l) ==
    /\ ~listeners[l].done
    /\ listeners' = [listeners EXCEPT ![l].done = TRUE]
    /\ UNCHANGED <<TransportMap, listener, connMap, conns, cache, peerstore,
                   swarmConns, driverLog, tasks, pc, arg, tmp, ret, held, ncalls,
                   hist>>

\* Listener.Accept waits on the listener's inbound-request channel.
AcceptCall(th, l) ==
    /\ Call(th, "Accept", [NoArg EXCEPT !.t = listeners[l].t])
    /\ IF listeners[l].done
       THEN Return(th, Result("Accept", 0, "listener closed", FALSE)) /\ tmp' = tmp
       ELSE /\ Goto(th, "Accept", "A_wait")
            /\ tmp' = [tmp EXCEPT ![th] = [NoTmp EXCEPT !.l = l]]
    /\ UNCHANGED <<TransportMap, listener, listeners, connMap, conns, cache,
                   peerstore, swarmConns, driverLog, tasks, held, hist>>

\* The context is cancelled while Accept waits.
AcceptCancelled(th) ==
    /\ pc[th] = "A_wait"
    /\ listeners[tmp[th].l].done
    /\ Return(th, Result("Accept", 0, "listener closed", FALSE))
    /\ UNCHANGED <<TransportMap, listener, listeners, connMap, conns, cache,
                   peerstore, swarmConns, driverLog, tasks, arg, tmp, held, ncalls,
                   hist>>

\* Accept builds the inbound Conn for the connReq it received.
AcceptNewConn(th) ==
    /\ pc[th] = "A_new"
    /\ IF newConnFails(arg[th].t, tmp[th].pid)
       THEN /\ Return(th, Result("Accept", 0, New(ErrDuplicateConn), FALSE))
            /\ UNCHANGED <<conns, connMap, cache, hist>>
       ELSE /\ newConn(arg[th].t, tmp[th].pid, "inbound")
            /\ Return(th, Result("Accept", Len(conns) + 1, Nil, FALSE))
    /\ UNCHANGED <<TransportMap, listener, listeners, peerstore, swarmConns,
                   driverLog, tasks, arg, tmp, held, ncalls>>

----------------------------------------------------------------------------
(* HandleFoundPeer and connect                                             *)

TempAddrTTL == "TempAddrTTL"
Expired == "-1"

\* Peerstore.AddAddr / AddAddrs / SetAddr on the address /<protocol>/<p>.
PeerstoreSet(t, p, ttl) ==
    peerstore' = [peerstore EXCEPT ![t][p] =
                     [ttl |-> ttl, expired |-> IF ttl = Expired THEN @.expired + 1
                                               ELSE @.expired]]

SlotEmpty(slot) == slot = 0

\* Line 235: t.listener == nil || t.listener.ctx.Err() != nil
NotRunning(slot) == slot = 0 \/ listeners[slot].done

FoundKeepsSlot(t) == {<<"slot", t>>}

\* Line 245: t.lock.RUnlock() -- the locks HandleFoundPeer holds once the
\* listener snapshot is taken.
FoundHolds(t) == {}

\* Lines 220-245: the peer id is decoded and the listener snapshot taken
\* under the slot's read lock.
FoundCall(th, t, s) ==
    /\ Call(th, "Found", [NoArg EXCEPT !.t = t, !.pid = s])
    /\ IF ~DecodeOK(s) \/ NotRunning(listener[t])
       THEN Return(th, Result("Found", 0, Nil, FALSE)) /\ tmp' = tmp /\ held' = held
       ELSE /\ Goto(th, "Found", "F_addaddr")
            /\ tmp' = [tmp EXCEPT ![th] =
                          [NoTmp EXCEPT !.l = listener[t],
                                        !.ma = NewMultiaddr(ProtocolName(t), s)]]
            /\ held' = [held EXCEPT ![th] = FoundHolds(t)]
    /\ hist' = [hist EXCEPT !.found[th] =
                   [NoFound EXCEPT !.lost = s \in hist.lostSeen[t]]]
    /\ UNCHANGED <<TransportMap, listener, listeners, connMap, conns, cache,
                   peerstore, swarmConns, driverLog, tasks>>

\* Lines 248-249
FoundAddAddr(th) ==
    /\ pc[th] = "F_addaddr"
    /\ PeerstoreSet(arg[th].t, arg[th].pid, TempAddrTTL)
    /\ pc' = [pc EXCEPT ![th] = "F_delete"]
    /\ UNCHANGED <<TransportMap, listener, listeners, connMap, conns, cache,
                   swarmConns, driverLog, tasks, arg, tmp, ret, held, ncalls, hist>>

\* A ReceiveFromPeer call that found no Conn for peer p has yet to store
\* payload d in the transport's cache.
Storing(t, p, d) ==
    \E th \in Threads :
        pc[th] = "R_cache" /\ arg[th].t = t /\ arg[th].pid = p /\ arg[th].data = d

KeepCache(t, s) == cache

\* Line 252: the peer's entry of the transport's cache is dropped.
DropCache(t, s) == [cache EXCEPT ![t] = CacheDelete(@, s)]

FoundDelete(th) ==
    /\ pc[th] = "F_delete"
    /\ cache' = DropCache(arg[th].t, arg[th].pid)
    /\ pc' = [pc EXCEPT ![th] = "F_elect"]
    /\ hist' = [hist EXCEPT !.found[th].stale = cache[arg[th].t][arg[th].pid],
                            !.noConn[arg[th].t][arg[th].pid] =
                                SelectSeq(@, LAMBDA d : Storing(arg[th].t, arg[th].pid, d))]
    /\ UNCHANGED <<TransportMap, listener, listeners, connMap, conns, peerstore,
                   swarmConns, driverLog, tasks, arg, tmp, ret, held, ncalls>>

ElectReversed(local, remote) == StrLess(remote, local)

ElectFirstByte(local, remote) ==
    Len(local) > 0 /\ Len(remote) > 0 /\ local[1] < remote[1]

\* Line 255: the peer with the smaller peer id dials.
Elect(local, remote) == StrLess(local, remote)

\* Lines 255-275: the dialer spawns the connect goroutine and returns; the
\* acceptor goes on to the hand-off.
FoundElect(th) ==
    /\ pc[th] = "F_elect"
    /\ IF Elect(ListenerAddr(tmp[th].l), arg[th].pid)
       THEN /\ tasks' = Append(tasks, [t |-> arg[th].t, peer |-> arg[th].pid,
                                       l |-> tmp[th].l, pc |-> "T_connect",
                                       err |-> FALSE])
            /\ Return(th, Result("Found", 0, Nil, TRUE))
            /\ hist' = [hist EXCEPT !.found[th].elected = TRUE,
                                    !.found[th].spawned = @ + 1]
       ELSE /\ pc' = [pc EXCEPT ![th] = "F_send"]
            /\ hist' = [hist EXCEPT !.found[th].elected = TRUE]
            /\ UNCHANGED <<tasks, ret>>
    /\ UNCHANGED <<TransportMap, listener, listeners, connMap, conns, cache,
                   peerstore, swarmConns, driverLog, arg, tmp, held, ncalls>>

\* Lines 278-283: the connReq is handed to an Accept waiting on the
\* unbuffered channel.
FoundSend(th, acc) ==
    /\ pc[th] = "F_send"
    /\ pc[acc] = "A_wait"
    /\ tmp[acc].l = tmp[th].l
    /\ pc' = [pc EXCEPT ![th] = "idle", ![acc] = "A_new"]
    /\ tmp' = [tmp EXCEPT ![acc].pid = arg[th].pid, ![acc].ma = tmp[th].ma]
    /\ ret' = [ret EXCEPT ![th] = Result("Found", 0, Nil, TRUE)]
    /\ hist' = [hist EXCEPT !.found[th].sent = @ + 1]
    /\ UNCHANGED <<TransportMap, listener, listeners, connMap, conns, cache,
                   peerstore, swarmConns, driverLog, tasks, arg, held, ncalls>>

CtxAlwaysDone(l) == TRUE

\* Line 284: listener.ctx.Done()
CtxDone(l) == listeners[l].done

\* Lines 284-285: the listener's context is done.
FoundCancelled(th) ==
    /\ pc[th] = "F_send"
    /\ CtxDone(tmp[th].l)
    /\ Return(th, Result("Found", 0, Nil, FALSE))
    /\ UNCHANGED <<TransportMap, listener, listeners, connMap, conns, cache,
                   peerstore, swarmConns, driverLog, tasks, arg, tmp, held, ncalls,
                   hist>>

\* Line 292
ConnectAddAddrs(i) ==
    /\ tasks[i].pc = "T_connect"
    /\ PeerstoreSet(tasks[i].t, tasks[i].peer, TempAddrTTL)
    /\ tasks' = [tasks EXCEPT ![i].pc = "T_dial"]
    /\ UNCHANGED <<TransportMap, listener, listeners, connMap, conns, cache,
                   swarmConns, driverLog, pc, arg, tmp, ret, held, ncalls, hist>>

NeverFailed(err) == FALSE

\* Line 265: err != nil
Failed(err) == err

\* Lines 294-304: the swarm already holds a connection, or its DialPeer
\* answers; failed is the error connect returns.  A goroutine that has ended
\* is kept at T_end with what connect returned.
ConnectDial(i, failed) ==
    /\ tasks[i].pc = "T_dial"
    /\ tasks' = [tasks EXCEPT ![i].err = failed,
                              ![i].pc = IF Failed(failed) THEN "T_setaddr" ELSE "T_end"]
    /\ UNCHANGED <<TransportMap, listener, listeners, connMap, conns, cache,
                   peerstore, swarmConns, driverLog, pc, arg, tmp, ret, held,
                   ncalls, hist>>

\* Line 267
ConnectFailedSetAddr(i) ==
    /\ tasks[i].pc = "T_setaddr"
    /\ PeerstoreSet(tasks[i].t, tasks[i].peer, Expired)
    /\ tasks' = [tasks EXCEPT ![i].pc = "T_close"]
    /\ UNCHANGED <<TransportMap, listener, listeners, connMap, conns, cache,
                   swarmConns, driverLog, pc, arg, tmp, ret, held, ncalls, hist>>

\* Line 268
ConnectFailedClose(i) ==
    /\ tasks[i].pc = "T_close"
    /\ driverLog' = [driverLog EXCEPT ![tasks[i].t][tasks[i].peer] = @ + 1]
    /\ tasks' = [tasks EXCEPT ![i].pc = "T_end"]
    /\ UNCHANGED <<TransportMap, listener, listeners, connMap, conns, cache,
                   peerstore, swarmConns, pc, arg, tmp, ret, held, ncalls, hist>>

FoundStep(th) ==
    \/ FoundAddAddr(th)
    \/ FoundDelete(th)
    \/ FoundElect(th)
    \/ \E acc \in Threads : FoundSend(th, acc)
    \/ FoundCancelled(th)

ConnectStep(i) ==
    \/ ConnectAddAddrs(i)
    \/ \E failed \in BOOLEAN : ConnectDial(i, failed)
    \/ ConnectFailedSetAddr(i)
    \/ ConnectFailedClose(i)

----------------------------------------------------------------------------
(* ReceiveFromPeer, and the Conn's side of delivery                        *)

RingCap == 128

\* RingBufferMap.Add: the payload goes last; a full ring drops its oldest.
RingAdd(q, d) == IF Len(q) >= RingCap THEN Append(Tail(q), d) ELSE Append(q, d)

CacheAdd(c, key, d) == [c EXCEPT ![key] = RingAdd(@, d)]

NeverFound(entry) == FALSE

\* Line 195
Connected(entry) == entry # 0

MutexFree(c) == \A th \in Threads : <<"conn", c>> \notin held[th]

\* Line 194: t.connMapMutex.RUnlock() -- the locks ReceiveFromPeer holds once
\* the Conn is looked up.
ReceiveHolds(t) == {}

\* Lines 189-194: the payload is copied and the Conn looked up under the
\* connection map's read lock.  Payloads are numbered in the order the driver
\* delivers them.
ReceiveCall(th, t, p) ==
    /\ Call(th, "Receive", [NoArg EXCEPT !.t = t, !.pid = p,
                                         !.data = ncalls["Receive"] + 1])
    /\ Goto(th, "Receive", IF Connected(connMap[t][p]) THEN "R_ready" ELSE "R_cache")
    /\ tmp' = [tmp EXCEPT ![th] = [NoTmp EXCEPT !.c = connMap[t][p]]]
    /\ hist' = [hist EXCEPT
                   !.toConn = IF connMap[t][p] # 0
                              THEN [@ EXCEPT ![connMap[t][p]] =
                                       Append(@, ncalls["Receive"] + 1)]
                              ELSE @,
                   !.noConn[t][p] = IF connMap[t][p] # 0 THEN @
                                    ELSE Append(@, ncalls["Receive"] + 1),
                   !.recheck = @ \ {th}]
    /\ held' = [held EXCEPT ![th] = ReceiveHolds(t)]
    /\ UNCHANGED <<TransportMap, listener, listeners, connMap, conns, cache,
                   peerstore, swarmConns, driverLog, tasks>>

\* Line 197: Conn.isReady
ReceiveIsReady(th) ==
    /\ pc[th] = "R_ready"
    /\ pc' = [pc EXCEPT ![th] = IF conns[tmp[th].c].ready THEN "R_send" ELSE "R_lock"]
    /\ UNCHANGED <<TransportMap, listener, listeners, connMap, conns, cache,
                   peerstore, swarmConns, driverLog, tasks, arg, tmp, ret, held,
                   ncalls, hist>>

AlwaysNotReady(ready) == TRUE

\* Line 199: the flag is read again under the mutex.
StillNotReady(ready) == ~ready

\* Lines 198-205: under the Conn's mutex, a Conn still not ready caches the
\* payload.
ReceiveLocked(th) ==
    /\ pc[th] = "R_lock"
    /\ MutexFree(tmp[th].c)
    /\ IF StillNotReady(conns[tmp[th].c].ready)
       THEN /\ conns' = [conns EXCEPT ![tmp[th].c].cache = RingAdd(@, arg[th].data)]
            /\ Return(th, Result("Receive", 0, Nil, FALSE))
            /\ hist' = hist
       ELSE /\ pc' = [pc EXCEPT ![th] = "R_send"]
            /\ hist' = [hist EXCEPT !.recheck = @ \cup {th}]
            /\ UNCHANGED <<conns, ret>>
    /\ UNCHANGED <<TransportMap, listener, listeners, connMap, cache, peerstore,
                   swarmConns, driverLog, tasks, arg, tmp, held, ncalls>>

\* Line 209: the send on the input pipe waits for room in it.
ReceiveSend(th) ==
    /\ pc[th] = "R_send"
    /\ Len(conns[tmp[th].c].input) < PipeCap
    /\ conns' = [conns EXCEPT ![tmp[th].c].input = Append(@, arg[th].data)]
    /\ Return(th, Result("Receive", 0, Nil, FALSE))
    /\ UNCHANGED <<TransportMap, listener, listeners, connMap, cache, peerstore,
                   swarmConns, driverLog, tasks, arg, tmp, held, ncalls, hist>>

\* Line 212: without a Conn the payload goes to the transport's cache.
ReceiveCache(th) ==
    /\ pc[th] = "R_cache"
    /\ cache' = [cache EXCEPT ![arg[th].t] = CacheAdd(@, arg[th].pid, arg[th].data)]
    /\ Return(th, Result("Receive", 0, Nil, FALSE))
    /\ hist' = [hist EXCEPT !.found =
                   [h \in Threads |->
                       IF pc[h] = "F_elect" /\ arg[h].t = arg[th].t
                                            /\ arg[h].pid = arg[th].pid
                       THEN [hist.found[h] EXCEPT !.fresh = Append(@, arg[th].data)]
                       ELSE hist.found[h]]]
    /\ UNCHANGED <<TransportMap, listener, listeners, connMap, conns, peerstore,
                   swarmConns, driverLog, tasks, arg, tmp, held, ncalls>>

ReceiveStep(th) ==
    \/ ReceiveIsReady(th)
    \/ ReceiveLocked(th)
    \/ ReceiveSend(th)
    \/ ReceiveCache(th)

\* Conn.setReady takes the Conn's mutex; a Conn already ready is left alone.
SetReadyCall(th, c) ==
    /\ pc[th] = "idle"
    /\ Live(c)
    /\ MutexFree(c)
    /\ arg' = [arg EXCEPT ![th] = [NoArg EXCEPT !.t = conns[c].t]]
    /\ tmp' = [tmp EXCEPT ![th] = [NoTmp EXCEPT !.c = c]]
    /\ IF conns[c].ready
       THEN Return(th, Result("SetReady", c, Nil, FALSE)) /\ held' = held
       ELSE /\ Goto(th, "SetReady", "S_drain")
            /\ held' = [held EXCEPT ![th] = {<<"conn", c>>}]
    /\ UNCHANGED <<TransportMap, listener, listeners, connMap, conns, cache,
                   peerstore, swarmConns, driverLog, tasks, ncalls, hist>>

\* Under the mutex the pre-ready cache is moved into the input pipe, oldest
\* first; then the Conn is ready.
SetReadyDrain(th) ==
    /\ pc[th] = "S_drain"
    /\ LET c == tmp[th].c
       IN  IF conns[c].cache # <<>>
           THEN /\ Len(conns[c].input) < PipeCap
                /\ conns' = [conns EXCEPT ![c].input = Append(@, Head(conns[c].cache)),
                                          ![c].cache = Tail(@)]
                /\ UNCHANGED <<pc, ret, held>>
           ELSE /\ conns' = [conns EXCEPT ![c].ready = TRUE]
                /\ Return(th, Result("SetReady", c, Nil, FALSE))
                /\ held' = [held EXCEPT ![th] = {}]
    /\ UNCHANGED <<TransportMap, listener, listeners, connMap, cache, peerstore,
                   swarmConns, driverLog, tasks, arg, tmp, ncalls, hist>>

\* The upgraded stream reads the next payload from the input pipe.
PipeRead(c) ==
    /\ Live(c)
    /\ conns[c].input # <<>>
    /\ conns' = [conns EXCEPT ![c].input = Tail(@),
                              ![c].out = Append(@, Head(conns[c].input))]
    /\ UNCHANGED <<TransportMap, listener, listeners, connMap, cache, peerstore,
                   swarmConns, driverLog, tasks, pc, arg, tmp, ret, held, ncalls,
                   hist>>

----------------------------------------------------------------------------
(* HandleLostPeer and the swarm's connections                              *)

\* The overlay opens a connection to peer p at remote multiaddress m.
SwarmOpen(t, p, m) ==
    /\ Len(swarmConns) < MaxSwarmConns
    /\ swarmConns' = Append(swarmConns, [t |-> t, peer |-> p, rma |-> m,
                                         closed |-> FALSE])
    /\ UNCHANGED <<TransportMap, listener, listeners, connMap, conns, cache,
                   peerstore, driverLog, tasks, pc, arg, tmp, ret, held, ncalls,
                   hist>>

RECURSIVE Indices(_, _, _, _)
Indices(sc, t, p, i) ==
    IF i > Len(sc) THEN <<>>
    ELSE IF sc[i].t = t /\ sc[i].peer = p /\ ~sc[i].closed
         THEN <<i>> \o Indices(sc, t, p, i + 1)
         ELSE Indices(sc, t, p, i + 1)

\* Swarm.ConnsToPeer
ConnsToPeer(t, p) == Indices(swarmConns, t, p, 1)

\* Lines 311-324: the peer id is decoded and its address expired in the
\* peerstore.
LostCall(th, t, s) ==
    /\ Call(th, "Lost", [NoArg EXCEPT !.t = t, !.pid = s])
    /\ IF ~DecodeOK(s)
       THEN /\ Return(th, Result("Lost", 0, Nil, FALSE))
            /\ UNCHANGED <<peerstore, tmp>>
       ELSE /\ PeerstoreSet(t, s, Expired)
            /\ Goto(th, "Lost", "H_conns")
            /\ tmp' = [tmp EXCEPT ![th] =
                          [NoTmp EXCEPT !.ma = NewMultiaddr(ProtocolName(t), s)]]
    /\ hist' = [hist EXCEPT
                   !.closedBefore[th] = {i \in 1 .. Len(swarmConns) : swarmConns[i].closed},
                   !.snapshot[th] = {},
                   !.expiredBefore[th] = peerstore[t][s].expired]
    /\ UNCHANGED <<TransportMap, listener, listeners, connMap, conns, cache,
                   swarmConns, driverLog, tasks, held>>

\* Line 327
LostConns(th) ==
    /\ pc[th] = "H_conns"
    /\ tmp' = [tmp EXCEPT ![th].todo = ConnsToPeer(arg[th].t, arg[th].pid)]
    /\ pc' = [pc EXCEPT ![th] = "H_loop"]
    /\ hist' = [hist EXCEPT !.snapshot[th] =
                   {i \in 1 .. Len(swarmConns) :
                       swarmConns[i].t = arg[th].t /\ swarmConns[i].peer = arg[th].pid
                       /\ ~swarmConns[i].closed}]
    /\ UNCHANGED <<TransportMap, listener, listeners, connMap, conns, cache,
                   peerstore, swarmConns, driverLog, tasks, arg, ret, held, ncalls>>

MaEqualAny(a, b) == TRUE

\* Line 329: Multiaddr.Equal
MaEqual(a, b) == a = b

\* Lines 328-333: each connection at the lost peer's address is closed.
LostLoop(th) ==
    /\ pc[th] = "H_loop"
    /\ IF tmp[th].todo = <<>>
       THEN /\ Return(th, Result("Lost", 0, Nil, FALSE))
            /\ hist' = [hist EXCEPT !.lostSeen[arg[th].t] = @ \cup {arg[th].pid}]
            /\ UNCHANGED <<swarmConns, tmp>>
       ELSE LET i == Head(tmp[th].todo)
            IN  /\ tmp' = [tmp EXCEPT ![th].todo = Tail(@)]
                /\ IF MaEqual(swarmConns[i].rma, tmp[th].ma)
                   THEN swarmConns' = [swarmConns EXCEPT ![i].closed = TRUE]
                   ELSE UNCHANGED swarmConns
                /\ UNCHANGED <<pc, ret, hist>>
    /\ UNCHANGED <<TransportMap, listener, listeners, connMap, conns, cache,
                   peerstore, driverLog, tasks, arg, held, ncalls>>

LostStep(th) ==
    \/ LostConns(th)
    \/ LostLoop(th)

----------------------------------------------------------------------------
(* Specifications.  Each runs the handlers on the threads of one scenario.  *)

\* The overlay listens, dials on two threads whatever the driver answers,
\* and closes the Conns it holds.
NextDial ==
    \/ \E th \in DialThreads :
        \/ ListenCall(th, "t1", DefaultAddr("t1"))
        \/ ListenStep(th)
        \/ \E a \in DialArgs("t1") : \E linked \in BOOLEAN :
               DialCall(th, "t1", a[1], a[2], linked)
        \/ DialStep(th)
    \/ \E c \in 1 .. Len(conns) : ConnClose(c)

SpecDial == Init /\ [][NextDial]_vars

ConnPeer == <<1>>

\* Two dials of one linked peer race with each other and with the Accept
\* of the same peer, found by the driver; the overlay closes Conns.
NextConn ==
    \/ ListenCall("o1", "t1", DefaultAddr("t1"))
    \/ ListenStep("o1")
    \/ \E th \in DialThreads :
        \/ DialCall(th, "t1", NewMultiaddr(ProtocolName("t1"), ConnPeer), ConnPeer, TRUE)
        \/ DialStep(th)
    \/ \E c \in 1 .. Len(conns) : ConnClose(c)
    \/ \E l \in 1 .. Len(listeners) : AcceptCall("a1", l)
    \/ AcceptNewConn("a1")
    \/ FoundCall("d1", "t1", ConnPeer)
    \/ FoundAddAddr("d1")
    \/ FoundDelete("d1")
    \/ FoundElect("d1")
    \/ FoundSend("d1", "a1")

SpecConn == Init /\ [][NextConn]_vars

RecvPeer == <<1>>

\* A Conn is dialled, the driver delivers payloads one after the other on
\* its thread, while the overlay makes the Conn ready and reads its pipe.
NextRecv ==
    \/ ListenCall("o1", "t1", DefaultAddr("t1"))
    \/ ListenStep("o1")
    \/ DialCall("o1", "t1", NewMultiaddr(ProtocolName("t1"), RecvPeer), RecvPeer, TRUE)
    \/ DialStep("o1")
    \/ ReceiveCall("d1", "t1", RecvPeer)
    \/ ReceiveStep("d1")
    \/ \E c \in 1 .. Len(conns) : SetReadyCall("o2", c)
    \/ SetReadyDrain("o2")
    \/ \E c \in 1 .. Len(conns) : PipeRead(c)

SpecRecv == Init /\ [][NextRecv]_vars

\* The peer ids the driver reports to the transport of local peer <<1, 2>>:
\* one smaller, one larger, the local one and one that does not decode.
FoundInputs == {<<1>>, <<2>>, <<1, 2>>, <<0>>}

\* The driver reports found peers while the overlay listens, accepts and
\* closes the listener; the connect goroutines the dialer spawns run
\* beside them.
NextFound ==
    \/ ListenCall("o1", "t1", DefaultAddr("t1"))
    \/ ListenStep("o1")
    \/ \E l \in 1 .. Len(listeners) : ListenerClose(l)
    \/ \E l \in 1 .. Len(listeners) : AcceptCall("a1", l)
    \/ AcceptCancelled("a1")
    \/ AcceptNewConn("a1")
    \/ \E s \in FoundInputs : FoundCall("d1", "t1", s)
    \/ FoundStep("d1")
    \/ \E i \in 1 .. Len(tasks) : ConnectStep(i)

SpecFound == Init /\ [][NextFound]_vars

LostInputs == {<<1>>, <<2>>, <<0>>}

LostPeers == {<<1>>, <<2>>}

SwarmAddrs(t, p) == {NewMultiaddr(ProtocolName(t), p), NewMultiaddr("tcp", p)}

\* A peer is lost while the overlay opens connections to it and to others.
NextLost ==
    \/ \E s \in LostInputs : LostCall("d1", "t1", s)
    \/ LostStep("d1")
    \/ \E p \in LostPeers : \E m \in SwarmAddrs("t1", p) : SwarmOpen("t1", p, m)

SpecLost == Init /\ [][NextLost]_vars

\* A peer is lost and found again while its payloads arrive on another
\* driver thread and the driver also reports a peer with a larger peer id,
\* whose connect goroutines run; the overlay is not accepting.
NextRediscover ==
    \/ ListenCall("o1", "t1", DefaultAddr("t1"))
    \/ ListenStep("o1")
    \/ LostCall("d1", "t1", RecvPeer)
    \/ LostStep("d1")
    \/ \E s \in LostPeers : FoundCall("d1", "t1", s)
    \/ FoundAddAddr("d1")
    \/ FoundDelete("d1")
    \/ FoundElect("d1")
    \/ ReceiveCall("d2", "t1", RecvPeer)
    \/ ReceiveCache("d2")
    \/ \E i \in 1 .. Len(tasks) : ConnectStep(i)

SpecRediscover == Init /\ [][NextRediscover]_vars

\* Two peers find each other: a transport of protocol ble and the transport
\* of protocol mc stand for the two sides, each with its listener, and the
\* driver of each reports the other's peer id; an Accept waits on either
\* and the dialer's connect goroutine runs.  The listeners stay open.
NextMutual ==
    \/ ListenCall("o1", "t1", DefaultAddr("t1"))
    \/ ListenStep("o1")
    \/ ListenCall("o2", "t3", DefaultAddr("t3"))
    \/ ListenStep("o2")
    \/ \E l \in 1 .. Len(listeners) : AcceptCall("a1", l)
    \/ AcceptNewConn("a1")
    \/ FoundCall("d1", "t1", LocalPeer("t3"))
    \/ FoundCall("d2", "t3", LocalPeer("t1"))
    \/ \E th \in {"d1", "d2"} :
           \/ FoundAddAddr(th)
           \/ FoundDelete(th)
           \/ FoundElect(th)
           \/ FoundSend(th, "a1")
    \/ \E i \in 1 .. Len(tasks) : ConnectStep(i)

SpecMutual == Init /\ [][NextMutual]_vars

\* A Conn is dialled, made ready, read and closed by the overlay while the
\* driver delivers payloads for its peer.
NextClose ==
    \/ ListenCall("o1", "t1", DefaultAddr("t1"))
    \/ ListenStep("o1")
    \/ DialCall("o1", "t1", NewMultiaddr(ProtocolName("t1"), RecvPeer), RecvPeer, TRUE)
    \/ DialStep("o1")
    \/ ReceiveCall("d1", "t1", RecvPeer)
    \/ ReceiveStep("d1")
    \/ \E c \in 1 .. Len(conns) : SetReadyCall("o2", c)
    \/ SetReadyDrain("o2")
    \/ \E c \in 1 .. Len(conns) : PipeRead(c)
    \/ \E c \in 1 .. Len(conns) : ConnClose(c)

SpecClose == Init /\ [][NextClose]_vars

RejectInputs == {<<1>>, <<2>>, <<0>>}

\* The driver reports peers, well-formed or not, before the overlay listens,
\* while it listens and after it closed the listener, while payloads of a
\* peer without a Conn arrive on another driver thread and the connect
\* goroutines of the calls that went through run.  No Accept waits.
NextReject ==
    \/ ListenCall("o1", "t1", DefaultAddr("t1"))
    \/ ListenStep("o1")
    \/ \E l \in 1 .. Len(listeners) : ListenerClose(l)
    \/ \E s \in RejectInputs : FoundCall("d1", "t1", s)
    \/ FoundAddAddr("d1")
    \/ FoundDelete("d1")
    \/ FoundElect("d1")
    \/ FoundCancelled("d1")
    \/ ReceiveCall("d2", "t1", RecvPeer)
    \/ ReceiveCache("d2")
    \/ \E i \in 1 .. Len(tasks) : ConnectStep(i)

SpecReject == Init /\ [][NextReject]_vars

AsyncPeers == {<<2>>, <<2, 1>>}

\* The dialer's connect goroutines run beside the driver's reports of
\* peers with a larger peer id.
NextAsync ==
    \/ ListenCall("o1", "t1", DefaultAddr("t1"))
    \/ ListenStep("o1")
    \/ \E s \in AsyncPeers : FoundCall("d1", "t1", s)
    \/ FoundAddAddr("d1")
    \/ FoundDelete("d1")
    \/ FoundElect("d1")
    \/ \E i \in 1 .. Len(tasks) : ConnectStep(i)

SpecAsync == Init /\ [][NextAsync]_vars

\* One session with a peer on the acceptor's side: the driver reports the
\* peer and delivers its payloads on its thread, before and after the
\* overlay accepts the Conn; the overlay makes the Conn ready and reads its
\* pipe.
NextSession ==
    \/ ListenCall("o1", "t1", DefaultAddr("t1"))
    \/ ListenStep("o1")
    \/ \E l \in 1 .. Len(listeners) : AcceptCall("a1", l)
    \/ AcceptNewConn("a1")
    \/ FoundCall("d1", "t1", RecvPeer)
    \/ FoundAddAddr("d1")
    \/ FoundDelete("d1")
    \/ FoundElect("d1")
    \/ FoundSend("d1", "a1")
    \/ ReceiveCall("d1", "t1", RecvPeer)
    \/ ReceiveStep("d1")
    \/ \E c \in 1 .. Len(conns) : SetReadyCall("o2", c)
    \/ SetReadyDrain("o2")
    \/ \E c \in 1 .. Len(conns) : PipeRead(c)

SpecSession == Init /\ [][NextSession]_vars

NoLock == [lock |-> <<"none", "none">>, write |-> FALSE]

\* The lock the next step of thread th takes first, and whether for writing:
\* Listen takes the registry's lock (lines 158, 169) and the slot's (lines 161,
\* 173), Dial and newConn the connection map's (line 120), ReceiveFromPeer
\* the Conn's mutex (line 198).
Wants(th) ==
    CASE pc[th] = "L_registry" -> [lock |-> <<"registry", "all">>, write |-> FALSE]
      [] pc[th] = "L_slot"     -> [lock |-> <<"slot", arg[th].t>>, write |-> FALSE]
      [] pc[th] = "L_register" -> [lock |-> <<"registry", "all">>, write |-> TRUE]
      [] pc[th] = "L_install"  -> [lock |-> <<"slot", arg[th].t>>, write |-> TRUE]
      [] pc[th] = "D_map"      -> [lock |-> <<"map", arg[th].t>>, write |-> FALSE]
      [] pc[th] = "D_new"      -> [lock |-> <<"map", arg[th].t>>, write |-> TRUE]
      [] pc[th] = "A_new"      -> [lock |-> <<"map", arg[th].t>>, write |-> TRUE]
      [] pc[th] = "R_lock"     -> [lock |-> <<"conn", tmp[th].c>>, write |-> TRUE]
      [] OTHER                 -> NoLock

\* Thread th waits for a lock thread h holds: the locks held across steps are
\* read locks and mutexes, which keep a writer out.
Blocks(h, th) == Wants(th).write /\ Wants(th).lock \in held[h]

\* The overlay listens and dials a peer on one thread and makes the Conn
\* ready on another, while the driver, on its thread, reports the peer found
\* and lost and delivers its payloads.  Nothing accepts and nothing reads
\* the input pipe, so that the hand-off and a delivery to a full pipe wait.
NextLocks ==
    \/ ListenCall("o1", "t1", DefaultAddr("t1"))
    \/ ListenStep("o1")
    \/ DialCall("o1", "t1", NewMultiaddr(ProtocolName("t1"), RecvPeer), RecvPeer, TRUE)
    \/ DialStep("o1")
    \/ \E c \in 1 .. Len(conns) : SetReadyCall("o2", c)
    \/ SetReadyDrain("o2")
    \/ FoundCall("d1", "t1", RecvPeer)
    \/ FoundAddAddr("d1")
    \/ FoundDelete("d1")
    \/ FoundElect("d1")
    \/ LostCall("d1", "t1", RecvPeer)
    \/ LostStep("d1")
    \/ ReceiveCall("d1", "t1", RecvPeer)
    \/ ReceiveStep("d1")

SpecLocks == Init /\ [][NextLocks]_vars

----------------------------------------------------------------------------
(* Properties                                                              *)

Range(q) == {q[i] : i \in 1 .. Len(q)}

Returned(th, op) == ret[th].op = op /\ pc[th] = "idle"

\* C1 (singleton listener): a Listen call that starts after a Listen on a
\* transport of the same protocol name has returned a listener returns no
\* listener, and, its address being one Listen accepts, fails with the
\* one-listener-maximum error, on the same transport or on another one.
C1_SingletonListener ==
    \A th \in Threads :
        (Returned(th, "Listen") /\ th \in hist.after) =>
            /\ ret[th].val = 0
            /\ ~ListenAddrBad(arg[th].t, arg[th].ma) => ret[th].err = ErrOneListener

C1_Witness ==
    \E th \in Threads :
        /\ Returned(th, "Listen") /\ th \in hist.after
        /\ ret[th].err = ErrOneListener
        /\ TransportMap[ProtocolName(arg[th].t)] # arg[th].t

\* C10 (address normalization): the listener a successful Listen returns is
\* one of its transport, whose slot is filled, and its local multiaddress is
\* /<protocolName>/<localPeerID> when Listen was given the driver's default
\* address and the address given otherwise.
C10_AddressNormalization ==
    \A th \in Threads :
        (Returned(th, "Listen") /\ ret[th].val # 0) =>
            /\ ret[th].err = Nil
            /\ listener[arg[th].t] # 0
            /\ listeners[ret[th].val].t = arg[th].t
            /\ listeners[ret[th].val].localMa =
                  IF arg[th].ma = DefaultAddr(arg[th].t)
                  THEN <<[proto |-> ProtocolName(arg[th].t), val |-> LocalPeer(arg[th].t)]>>
                  ELSE arg[th].ma

C10_Witness ==
    \E th \in Threads :
        /\ Returned(th, "Listen") /\ ret[th].val # 0
        /\ arg[th].ma = DefaultAddr(arg[th].t)
        /\ listeners[ret[th].val].localMa # arg[th].ma
        /\ listener[arg[th].t] = ret[th].val

\* C5 (dial gate): a Dial that finds the listener slot empty has returned
\* the no-active-listener error and no Conn without asking driver.DialPeer,
\* whatever its address and whatever the driver would have answered.
C5_DialGate ==
    \A th \in Threads :
        (ret[th].op = "Dial" /\ th \in hist.noSlot) =>
            /\ pc[th] = "idle"
            /\ ret[th].err = ErrNoListener
            /\ ret[th].val = 0
            /\ hist.dialPeer[th] = "none"

C5_Witness ==
    \E th \in Threads :
        /\ Returned(th, "Dial") /\ th \in hist.noSlot
        /\ ~DialAddrBad(arg[th].t, arg[th].ma, arg[th].pid)
        /\ arg[th].linked
        /\ ret[th].err = ErrNoListener

LinkGate ==
    \A th \in Threads :
        ret[th].op = "Dial" =>
            /\ pc[th] = "idle" =>
                  (ret[th].err = ErrNotLinked <=> hist.dialPeer[th] = "false")
            /\ hist.dialPeer[th] = "false" => (pc[th] = "idle" /\ ret[th].val = 0)
            /\ pc[th] # "idle" => hist.dialPeer[th] = "true"

GateStepKeepsConns ==
    ncalls'["Dial"] # ncalls["Dial"] => UNCHANGED <<conns, connMap>>

\* C6 (link gate): a Dial returns the peer-not-linked error exactly when
\* driver.DialPeer answered false to it; it then returns no Conn and ends at
\* that check, in the step that began it, which creates no Conn and leaves
\* the connection map as it was; a Dial that goes on was answered true.
C6_LinkGate == []LinkGate /\ [][GateStepKeepsConns]_vars

C6_Witness ==
    \E th \in Threads :
        /\ Returned(th, "Dial")
        /\ hist.dialPeer[th] = "false"
        /\ ret[th].err = ErrNotLinked

\* C7 (dial address validation): with a listener installed, a Dial whose
\* multiaddress does not decode under the protocol code, or decodes to
\* another string than the peer id, returns the wrong-multiaddr error (not
\* nil), no Conn, and does not ask driver.DialPeer.
C7_DialAddressValidation ==
    \A th \in Threads :
        (Returned(th, "Dial") /\ th \notin hist.noSlot
            /\ DialAddrBad(arg[th].t, arg[th].ma, arg[th].pid)) =>
            /\ ret[th].err # Nil
            /\ ret[th].err = ErrWrongMultiaddr
            /\ ret[th].val = 0
            /\ hist.dialPeer[th] = "none"

LiveConnsTo(t, p) ==
    {c \in 1 .. Len(conns) : Live(c) /\ conns[c].t = t /\ conns[c].peer = p}

\* C4 (connection uniqueness): a peer id has at most one live Conn, which is
\* the one the connection map holds for it; a Dial that finds an entry for
\* its peer in the map returns the already-connected error and no Conn; so
\* it is too when Dials and an Accept of the same peer race.
C4_ConnUnique ==
    /\ \A t \in Transports : \A p \in Keys : Cardinality(LiveConnsTo(t, p)) <= 1
    /\ \A c \in 1 .. Len(conns) :
           Live(c) => connMap[conns[c].t][conns[c].peer] = c
    /\ \A th \in Threads :
           (Returned(th, "Dial") /\ th \in hist.sawConn) =>
               (ret[th].err = ErrAlreadyConnected /\ ret[th].val = 0)

C4_Witness ==
    \E th \in Threads : \E a \in Threads :
        /\ Returned(th, "Dial") /\ th \in hist.sawConn
        /\ ret[th].err = ErrAlreadyConnected
        /\ Returned(a, "Accept") /\ ret[a].val # 0
        /\ Live(ret[a].val)
        /\ conns[ret[a].val].peer = arg[th].pid

Receiving(c) ==
    {th \in Threads : pc[th] \in {"R_ready", "R_lock", "R_send"} /\ tmp[th].c = c}

InFlight(c) ==
    IF Receiving(c) = {} THEN <<>>
    ELSE <<arg[CHOOSE th \in Receiving(c) : TRUE].data>>

\* C3 (pre-ready ordering): of the payloads a Conn was created with and
\* those the driver delivers to it, one call after the other, those read
\* from the input pipe, then those in the pipe, then those in the pre-ready
\* cache, then the one being delivered are, in this order, the payloads in
\* delivery order: none is lost, doubled or overtaken, also when setReady
\* runs beside a delivery.
C3_PreReadyOrder ==
    \A c \in 1 .. Len(conns) :
        conns[c].out \o conns[c].input \o conns[c].cache \o InFlight(c)
            = hist.atCreate[c] \o hist.toConn[c]

C3_Witness ==
    \E c \in 1 .. Len(conns) : \E th \in Threads :
        /\ Returned(th, "Receive") /\ th \in hist.recheck
        /\ conns[c].ready
        /\ Len(conns[c].out) >= 3
        /\ conns[c].out = hist.atCreate[c] \o hist.toConn[c]

\* C2 (election determinism): a HandleFoundPeer call that reaches the
\* election with a remote peer id other than the local one has spawned one
\* connect, sent no connReq and returned true if the local peer id is the
\* smaller string; otherwise it has spawned no connect and is at the
\* hand-off, has returned true after sending one connReq, or has returned
\* false without sending.
C2_Election ==
    \A th \in Threads :
        (ret[th].op = "Found" /\ hist.found[th].elected
            /\ LocalPeer(arg[th].t) # arg[th].pid) =>
            IF StrLess(LocalPeer(arg[th].t), arg[th].pid)
            THEN /\ hist.found[th].spawned = 1 /\ hist.found[th].sent = 0
                 /\ pc[th] = "idle" /\ ret[th].b
            ELSE /\ hist.found[th].spawned = 0
                 /\ \/ pc[th] = "F_send" /\ hist.found[th].sent = 0
                    \/ pc[th] = "idle" /\ ret[th].b /\ hist.found[th].sent = 1
                    \/ pc[th] = "idle" /\ ~ret[th].b /\ hist.found[th].sent = 0

C2_Witness ==
    \E th \in Threads :
        /\ Returned(th, "Found") /\ hist.found[th].elected
        /\ StrLess(arg[th].pid, LocalPeer(arg[th].t))
        /\ Len(arg[th].pid) < Len(LocalPeer(arg[th].t))
        /\ ret[th].b /\ hist.found[th].sent = 1 /\ hist.found[th].spawned = 0

\* C8 (cache flush on rediscovery), as the specification states it: when
\* HandleFoundPeer(p),
\* called after HandleLostPeer(p) returned, is at the election, the
\* transport's cache holds nothing for p, in every interleaving with
\* ReceiveFromPeer(p, .).
C8_EmptyAtElection ==
    \A th \in Threads :
        (pc[th] = "F_elect" /\ hist.found[th].lost) =>
            cache[arg[th].t][arg[th].pid] = <<>>

\* C8 (cache flush on rediscovery), as the code keeps it: at that election
\* the cache holds for p only payloads that ReceiveFromPeer added after this
\* call's Delete, and none of those the Delete found there.
C8_FlushOnRediscovery ==
    \A th \in Threads :
        (pc[th] = "F_elect" /\ hist.found[th].lost) =>
            /\ Range(cache[arg[th].t][arg[th].pid]) \subseteq Range(hist.found[th].fresh)
            /\ Range(cache[arg[th].t][arg[th].pid]) \cap Range(hist.found[th].stale) = {}

C8_Witness ==
    \E th \in Threads :
        /\ pc[th] = "F_elect" /\ hist.found[th].lost
        /\ hist.found[th].stale # <<>>
        /\ cache[arg[th].t][arg[th].pid] = <<>>

\* C9 (lost-peer closure): when HandleLostPeer(p) has returned for a
\* well-formed p, the peerstore holds TTL -1 for /<protocol>/<p>, set during
\* the call; every connection the swarm listed for p at /<protocol>/<p> is
\* closed; and every connection closed since the call began is one to p at
\* that address.
C9_LostClosure ==
    \A th \in Threads :
        (Returned(th, "Lost") /\ DecodeOK(arg[th].pid)) =>
            LET t == arg[th].t
                p == arg[th].pid
                m == <<[proto |-> ProtocolName(t), val |-> p]>>
            IN  /\ peerstore[t][p].ttl = Expired
                /\ peerstore[t][p].expired > hist.expiredBefore[th]
                /\ \A i \in hist.snapshot[th] :
                       swarmConns[i].rma = m => swarmConns[i].closed
                /\ \A i \in 1 .. Len(swarmConns) :
                       (swarmConns[i].closed /\ i \notin hist.closedBefore[th]) =>
                           (swarmConns[i].peer = p /\ swarmConns[i].rma = m)

C9_Witness ==
    \E th \in Threads :
        /\ Returned(th, "Lost") /\ DecodeOK(arg[th].pid)
        /\ \E i \in hist.snapshot[th] : \E j \in hist.snapshot[th] :
               /\ swarmConns[i].closed
               /\ ~swarmConns[j].closed
               /\ swarmConns[j].rma # swarmConns[i].rma

\* C11 (Listen address validation): a Listen whose multiaddress is neither
\* the driver's default address nor one that carries the local peer id under
\* the driver's protocol code returns an error that is not nil, and no
\* listener.
C11_ListenAddressValidation ==
    \A th \in Threads :
        (Returned(th, "Listen") /\ ListenAddrBad(arg[th].t, arg[th].ma)) =>
            /\ ret[th].err # Nil
            /\ ret[th].val = 0

SlotsOf(n) == {t \in Transports : ProtocolName(t) = n /\ listener[t] # 0}

ListenersOf(n) ==
    {l \in 1 .. Len(listeners) : ProtocolName(listeners[l].t) = n}

\* C12 (Listen atomicity): whatever the interleaving of Listen calls on
\* transports of one protocol name, at most one of them builds and returns
\* a listener, at most one transport of that name has a listener in its
\* slot, and the registry's entry for the name is that transport.
C12_ListenAtomic ==
    \A n \in Names :
        /\ Cardinality(ListenersOf(n)) <= 1
        /\ Cardinality(SlotsOf(n)) <= 1
        /\ \A t \in SlotsOf(n) : TransportMap[n] = t

ReadyBypass ==
    \A c \in 1 .. Len(conns) : conns[c].ready => conns[c].cache = <<>>

PutLast(q, r, d) == r = Append(q, d)

RouteStep ==
    \A th \in Threads :
        (ret[th].op = "Receive" /\ pc[th] # "idle" /\ pc'[th] # pc[th]) =>
            LET t == arg[th].t
                p == arg[th].pid
                d == arg[th].data
                c == tmp[th].c
            IN  IF pc'[th] # "idle"
                THEN cache' = cache /\ conns' = conns
                ELSE /\ c = 0 =>
                          /\ PutLast(cache[t][p], cache'[t][p], d)
                          /\ conns' = conns
                     /\ (c # 0 /\ ~conns[c].ready) =>
                          /\ PutLast(conns[c].cache, conns'[c].cache, d)
                          /\ conns'[c].input = conns[c].input
                          /\ cache' = cache
                     /\ (c # 0 /\ conns[c].ready) =>
                          /\ PutLast(conns[c].input, conns'[c].input, d)
                          /\ conns'[c].cache = conns[c].cache
                          /\ cache' = cache

LookupStep ==
    \A th \in Threads :
        (pc[th] = "idle" /\ pc'[th] \in {"R_ready", "R_cache"}) =>
            tmp'[th].c = connMap[arg'[th].t][arg'[th].pid]

\* C13 (receive routing): a ReceiveFromPeer call puts its payload in one
\* place, when it returns and not before: last in the transport's cache if
\* its lookup found no Conn for the peer, last in the Conn's pre-ready cache
\* if the Conn it found is not ready, last in the Conn's input pipe if it is
\* ready; a ready Conn stays ready with an empty pre-ready cache.
C13_ReceiveRouting ==
    /\ []ReadyBypass
    /\ [][RouteStep /\ LookupStep]_vars
    /\ [][\A c \in 1 .. Len(conns) : conns[c].ready => conns'[c].ready]_vars

C13_Witness ==
    \E c \in 1 .. Len(conns) :
        /\ cache[conns[c].t][conns[c].peer] # <<>>
        /\ conns[c].ready
        /\ Returned("d1", "Receive") /\ "d1" \in hist.recheck
        /\ Len(hist.toConn[c]) >= 2
        /\ conns[c].out \o conns[c].input = hist.atCreate[c] \o hist.toConn[c]

Dials(th) == hist.found[th].elected /\ hist.found[th].spawned = 1

Accepts(th) ==
    /\ hist.found[th].elected /\ hist.found[th].spawned = 0
    /\ pc[th] = "F_send" \/ Returned(th, "Found")

FoundEachOther(a, b) ==
    /\ ret[a].op = "Found" /\ ret[b].op = "Found"
    /\ hist.found[a].elected /\ hist.found[b].elected
    /\ arg[a].t # arg[b].t
    /\ arg[a].pid = LocalPeer(arg[b].t)
    /\ arg[b].pid = LocalPeer(arg[a].t)
    /\ LocalPeer(arg[a].t) # LocalPeer(arg[b].t)

\* C14 (mutual discovery): when two peers with different peer ids, each with
\* a running listener, have both reached the election of HandleFoundPeer for
\* the other, one of them is the dialer and the other the acceptor, never
\* both the same; and of any two different peer ids the election makes
\* exactly one the dialer of the other.
C14_MutualElection ==
    /\ \A a \in Threads : \A b \in Threads :
           FoundEachOther(a, b) =>
               /\ Dials(a) <=> Accepts(b)
               /\ Dials(b) <=> Accepts(a)
               /\ Dials(a) # Dials(b)
    /\ \A x \in PeerIDs : \A y \in PeerIDs \ {x} : Elect(x, y) # Elect(y, x)

C14_Witness ==
    \E a \in Threads : \E b \in Threads :
        /\ FoundEachOther(a, b)
        /\ Returned(a, "Found") /\ Returned(b, "Found")
        /\ ret[a].b /\ ret[b].b
        /\ Dials(a) /\ Accepts(b) /\ hist.found[b].sent = 1

AcceptBranch(th) ==
    ret[th].op = "Found" /\ hist.found[th].elected /\ hist.found[th].spawned = 0

Receives(acc, th) ==
    /\ pc[acc] = "A_wait" /\ pc'[acc] = "A_new"
    /\ tmp[acc].l = tmp[th].l
    /\ tmp'[acc].pid = arg[th].pid
    /\ tmp'[acc].ma = NewMultiaddr(ProtocolName(arg[th].t), arg[th].pid)

HandoffState ==
    \A th \in Threads :
        AcceptBranch(th) =>
            /\ pc[th] \in {"F_send", "idle"}
            /\ pc[th] = "F_send" => hist.found[th].sent = 0
            /\ (pc[th] = "idle" /\ ret[th].b) => hist.found[th].sent = 1
            /\ (pc[th] = "idle" /\ ~ret[th].b) =>
                   (hist.found[th].sent = 0 /\ listeners[tmp[th].l].done)

HandoffStep ==
    /\ \A th \in Threads :
           (pc[th] = "F_send" /\ pc'[th] = "idle") =>
               IF ret'[th].b
               THEN Cardinality({acc \in Threads : Receives(acc, th)}) = 1
               ELSE /\ listeners[tmp[th].l].done
                    /\ \A acc \in Threads : pc'[acc] = "A_new" => pc[acc] = "A_new"
    /\ \A acc \in Threads :
           (pc[acc] = "A_wait" /\ pc'[acc] = "A_new") =>
               Cardinality({th \in Threads :
                   pc[th] = "F_send" /\ pc'[th] = "idle" /\ ret'[th].b
                       /\ Receives(acc, th)}) = 1

\* C15 (acceptor hand-off): in the accept branch HandleFoundPeer stays at
\* the hand-off until it returns; it returns true in the very step in which
\* one waiting Accept of its listener receives its connReq for the found
\* peer, and false only when the listener's context is cancelled, then
\* without handing anything over; an Accept receives a connReq only in such
\* a step.
C15_AcceptorHandoff == []HandoffState /\ [][HandoffStep]_vars

C15_Witness ==
    \E th \in Threads : \E acc \in Threads :
        /\ AcceptBranch(th) /\ Returned(th, "Found") /\ ret[th].b
        /\ hist.found[th].sent = 1
        /\ pc[acc] = "A_new"
        /\ tmp[acc].pid = arg[th].pid

TasksOf(t, p, pcs) ==
    {i \in 1 .. Len(tasks) :
        tasks[i].t = t /\ tasks[i].peer = p /\ tasks[i].pc \in pcs}

FailedOf(t, p, pcs) == {i \in TasksOf(t, p, pcs) : tasks[i].err}

CleanupState ==
    /\ \A t \in Transports : \A p \in Keys :
           /\ driverLog[t][p] = Cardinality(FailedOf(t, p, {"T_end"}))
           /\ peerstore[t][p].expired = Cardinality(FailedOf(t, p, {"T_close", "T_end"}))
    /\ \A i \in 1 .. Len(tasks) :
           /\ tasks[i].pc \in {"T_setaddr", "T_close"} => tasks[i].err
           /\ tasks[i].pc \in {"T_connect", "T_dial"} => ~tasks[i].err

SpawnStep ==
    Len(tasks') # Len(tasks) =>
        /\ Len(tasks') = Len(tasks) + 1
        /\ tasks'[Len(tasks')].pc = "T_connect"
        /\ \E th \in Threads :
               /\ pc[th] = "F_elect" /\ pc'[th] = "idle" /\ ret'[th].b
               /\ tasks'[Len(tasks')].t = arg[th].t
               /\ tasks'[Len(tasks')].peer = arg[th].pid

\* C16 (asynchronous dial): the step of HandleFoundPeer that spawns the
\* connect returns true with the connect not yet begun; for every peer the
\* driver's CloseConnWithPeer has been called once per connect that failed
\* and ended, its address /<protocol>/<peer> has been set to TTL -1 once per
\* failed connect, before that call, and a connect that succeeded ends with
\* neither.
C16_AsyncDialCleanup == []CleanupState /\ [][SpawnStep]_vars

C16_Witness ==
    \E i \in 1 .. Len(tasks) : \E j \in 1 .. Len(tasks) : \E th \in Threads :
        /\ tasks[i].pc = "T_end" /\ tasks[i].err
        /\ driverLog[tasks[i].t][tasks[i].peer] = 1
        /\ peerstore[tasks[i].t][tasks[i].peer].ttl = Expired
        /\ tasks[j].pc = "T_end" /\ ~tasks[j].err
        /\ tasks[j].peer # tasks[i].peer
        /\ driverLog[tasks[j].t][tasks[j].peer] = 0
        /\ peerstore[tasks[j].t][tasks[j].peer].ttl = TempAddrTTL
        /\ Returned(th, "Found") /\ ret[th].b

Begins(th) == pc[th] = "idle" /\ pc'[th] = "F_addaddr"

RejectStep ==
    ncalls'["Found"] # ncalls["Found"] =>
        /\ \A th \in Threads :
               Begins(th) =>
                   /\ DecodeOK(arg'[th].pid)
                   /\ listener[arg'[th].t] # 0
                   /\ ~listeners[listener[arg'[th].t]].done
        /\ (\A th \in Threads : ~Begins(th)) =>
               /\ UNCHANGED <<peerstore, cache, tasks, listeners, listener>>
               /\ \A acc \in Threads : pc'[acc] = "A_new" => pc[acc] = "A_new"
               /\ \A th \in Threads :
                      ret'[th] # ret[th] => ret'[th] = Result("Found", 0, Nil, FALSE)

RejectState ==
    \A th \in Threads :
        (Returned(th, "Found") /\ ~hist.found[th].elected) =>
            /\ ~ret[th].b
            /\ hist.found[th].spawned = 0
            /\ hist.found[th].sent = 0

\* C17 (rejected discovery): a HandleFoundPeer call goes past its check only
\* with a well-formed peer id and a listener in the slot whose context is not
\* cancelled; any other call returns false in the step of the check, which
\* leaves the peerstore, the transport's cache, the goroutines and the
\* listener as they were and hands no connReq to an Accept.
C17_RejectedDiscovery == []RejectState /\ [][RejectStep]_vars

C17_Witness ==
    \E th \in Threads :
        /\ Returned(th, "Found") /\ ~ret[th].b /\ ~hist.found[th].elected
        /\ DecodeOK(arg[th].pid)
        /\ listener[arg[th].t] # 0
        /\ listeners[listener[arg[th].t]].done
        /\ peerstore[arg[th].t][arg[th].pid].ttl = "none"
        /\ cache[arg[th].t][arg[th].pid] # <<>>
        /\ tasks = <<>>

\* C18 (delivery during close): a ReceiveFromPeer call that found a Conn
\* which has been closed since is never waiting to write to that Conn's
\* input pipe with the pipe full; nothing reads the pipe of a closed Conn,
\* so such a call waits for ever.
C18_DeliveryDuringClose ==
    \A th \in Threads :
        (ret[th].op = "Receive" /\ pc[th] = "R_send" /\ conns[tmp[th].c].closed) =>
            Len(conns[tmp[th].c].input) < PipeCap

Callbacks == {"Found", "Lost", "Receive"}

TransportLocks(th) == {l \in held[th] : l[1] \in {"slot", "map"}}

\* C19 (callbacks hold no transport lock): a thread that enters or runs
\* HandleFoundPeer, HandleLostPeer or ReceiveFromPeer holds neither the
\* listener slot's lock nor the connection map's lock; so none is held at the
\* peerstore writes, the send on the inbound channel, the spawn of connect
\* or the write to the input pipe, which are the steps these calls take from
\* such a state.
C19_CallbacksUnlocked ==
    \A th \in Threads :
        (pc[th] = "idle" \/ ret[th].op \in Callbacks) => TransportLocks(th) = {}

C19_Witness ==
    \E th \in Threads :
        /\ ret[th].op = "Found" /\ pc[th] = "F_send" /\ hist.found[th].lost
        /\ \A acc \in Threads : pc[acc] # "A_wait"
        /\ peerstore[arg[th].t][arg[th].pid].ttl = TempAddrTTL
        /\ \E c \in 1 .. Len(conns) : conns[c].input # <<>>
        /\ TransportLocks(th) = {}

Rank(kind) == CASE kind = "registry" -> 1
                [] kind = "slot"     -> 2
                [] kind = "map"      -> 3
                [] kind = "conn"     -> 4
                [] OTHER             -> 5

\* A set of threads each of which waits for a lock another of them (or
\* itself) holds.
LockDeadlock ==
    \E S \in SUBSET Threads :
        /\ S # {}
        /\ \A th \in S : \E h \in S : Blocks(h, th)

\* C20 (lock hierarchy): a thread takes its first lock holding none, a thread
\* that holds a lock takes only locks further down the order registry, slot,
\* connection map, Conn mutex, and no set of threads wait for one another's
\* locks.
C20_LockHierarchy ==
    /\ \A th \in Threads :
           /\ pc[th] = "idle" => held[th] = {}
           /\ \A l \in held[th] :
                  Wants(th) # NoLock => Rank(l[1]) < Rank(Wants(th).lock[1])
    /\ ~LockDeadlock

C20_Witness ==
    \E th \in Threads, rv \in Threads, s \in Threads :
        /\ pc[th] = "D_map" /\ held[th] = {<<"slot", arg[th].t>>}
        /\ Wants(th).lock = <<"map", arg[th].t>>
        /\ pc[rv] = "R_lock" /\ pc[s] = "S_drain" /\ Blocks(s, rv)

\* Nothing is on its way to Conn c: the Conn is ready, its pre-ready cache
\* and its input pipe are empty and no ReceiveFromPeer call is running.
Settled(c) ==
    /\ conns[c].ready
    /\ conns[c].cache = <<>>
    /\ conns[c].input = <<>>
    /\ \A th \in Threads : ~(ret[th].op = "Receive" /\ pc[th] # "idle")

\* C21 (session ordering across the transport's cache): once nothing is on
\* its way to a live Conn, the upgraded stream has read the payloads the
\* driver delivered for the peer while it had no Conn, from the last drop of
\* the transport's entry (line 252) to the creation of the Conn, followed by
\* the payloads delivered to the Conn, in the driver's order and with none
\* lost.
C21_SessionOrdering ==
    \A c \in 1 .. Len(conns) :
        (Live(c) /\ Settled(c)) => conns[c].out = hist.before[c] \o hist.toConn[c]

====
